---- MODULE Spec2Model ----
(***************************************************************************)
(* Worktree Rainbow (src/src/extension.ts): a VS Code extension that gives *)
(* every non-default git branch a persisted random colour and writes the   *)
(* derived palette into workbench.colorCustomizations.                     *)
(*                                                                         *)
(* The model covers the colour utilities, the globalState store, the       *)
(* read-modify-write of the configuration blob, the per-repository promise *)
(* chain of watchRepo, and the Reroll and Clear commands.  Every `await`   *)
(* of the source is a separate step, so handlers of different repositories *)
(* and the commands interleave exactly at the suspension points.           *)
(***************************************************************************)
EXTENDS Integers, Sequences, FiniteSets, TLC

\* ------------------------------------------------------------------ bounds
\* Environment events (repository opened, HEAD change, command invocation,
\* I/O failure, restart) allowed in one behaviour of each specification.
MaxEvents == 3
MaxSoloEvents == 3
MaxFaultEvents == 3
MaxCommandEvents == 4
MaxPairEvents == 3
MaxClearEvents == 2
MaxRerollEvents == 3
MaxKeyEvents == 2
\* Command callbacks that can be suspended at an await at the same time.
MaxCommands == 2

\* ------------------------------------------------------- JavaScript values
\* `undefined` for string-valued expressions (HEAD?.name, globalState.get).
undefined == "<undefined>"

\* JavaScript truthiness of a string-or-undefined value: `!x` holds for
\* undefined and for the empty string.
Truthy(x) == x # undefined /\ x # ""

\* An optional object: config.update(section, undefined) versus a mapping.
None == {}
Some(v) == {v}
TheValue(opt) == CHOOSE v \in opt : TRUE

EmptyObject == [k \in {} |-> 0]

\* ------------------------------------------------------- colour utilities
HexDigits == <<"0", "1", "2", "3", "4", "5", "6", "7",
               "8", "9", "a", "b", "c", "d", "e", "f">>

\* n.toString(16).padStart(2, "0") for 0 <= n <= 255
toString16(n) == <<HexDigits[(n \div 16) + 1], HexDigits[(n % 16) + 1]>>

DigitValue(ch) == CHOOSE d \in 0..15 : HexDigits[d + 1] = ch

\* parseInt(hex.slice(from, from + 2), 16); `from` is the 0-based index of the
\* source, the sequence is 1-based.
parseInt16(hex, from) == 16 * DigitValue(hex[from + 1]) + DigitValue(hex[from + 2])

\* A colour is the string "#rrggbb", kept as its sequence of 7 characters.
HexColor(r, g, b) == <<"#">> \o toString16(r) \o toString16(g) \o toString16(b)

\* Math.round(num / den) for num >= 0, den > 0: halves round up.
RoundDiv(num, den) == (2 * num + den) \div (2 * den)

Min2(a, b) == IF a < b THEN a ELSE b
Max2(a, b) == IF a > b THEN a ELSE b

\* The inputs randomHsl can draw: h in [0,360), s in [60,80), l in [40,50).
randomHslRange == [h : 0..359, s : 60..79, l : 40..49]

\* The draws of Math.random() explored by the model (a bounded subset of
\* randomHslRange): #c32222 (white ink on both backgrounds) and #29a329
\* (black ink on the active, white ink on the darkened background).
randomHsl == {[h |-> 0, s |-> 70, l |-> 45], [h |-> 120, s |-> 60, l |-> 40]}

\* The channels of randomHslRange whose exact value is a half-integer and
\* whose binary64 value in the source lies just below it, so that Math.round
\* rounds down: every channel with s = 75, l = 40 on the plateau p = 30
\* (25.5 exactly, 25.499999999999996 in binary64) and eleven channels on the
\* slopes.  On every other channel of randomHslRange the binary64 value
\* rounds as the exact one.
RoundsBelowHalf(n, h, s, l, p) ==
    \/ s = 75 /\ l = 40 /\ p = 30
    \/ <<n, h, s, l>> \in {<<8, 5, 70, 40>>, <<8, 20, 75, 40>>, <<0, 100, 75, 40>>,
                           <<4, 160, 75, 40>>, <<4, 175, 70, 40>>, <<8, 185, 70, 40>>,
                           <<8, 200, 75, 40>>, <<0, 245, 70, 40>>, <<0, 260, 75, 40>>,
                           <<4, 340, 75, 40>>, <<4, 355, 70, 40>>}

\* One channel of hslToHex: f(n) before the hex formatting, for the inputs
\* of randomHslRange.
\*   k = (n + h/30) % 12, a = s/100 * min(l/100, 1 - l/100),
\*   Math.round(255 * (l/100 - a * max(min(k - 3, 9 - k, 1), -1)))
\* computed over the common denominator 300000 (k30 = 30k, p = 30 * clamp).
hslChannel(n, h, s, l) ==
    LET k30 == (30 * n + h) % 360
        p   == Max2(Min2(Min2(k30 - 90, 270 - k30), 30), -30)
        m   == Min2(l, 100 - l)
        num == 255 * (3000 * l - s * m * p)
    IN  IF RoundsBelowHalf(n, h, s, l, p)
        THEN num \div 300000
        ELSE RoundDiv(num, 300000)

hslToHex(h, s, l) ==
    HexColor(hslChannel(0, h, s, l), hslChannel(8, h, s, l), hslChannel(4, h, s, l))

\* Math.round(c * (1 - amount)) for a channel c in 0..255 and an amount of
\* 0.0, 0.1, ..., 1.0 given in tenths.  The binary64 product falls just below
\* a half, and the source rounds down, for amount 0.3 at c in {45, 85, 165,
\* 175} and for amount 0.9 (1 - 0.9 is 0.09999999999999998) at every c that
\* ends in 5; everywhere else it rounds as the exact product.
darkenChannel(c, tenths) ==
    IF \/ tenths = 3 /\ c \in {45, 85, 165, 175}
       \/ tenths = 9 /\ c % 10 = 5
    THEN ((10 - tenths) * c) \div 10
    ELSE RoundDiv((10 - tenths) * c, 10)

darken(hex, tenths) ==
    HexColor(darkenChannel(parseInt16(hex, 1), tenths),
             darkenChannel(parseInt16(hex, 3), tenths),
             darkenChannel(parseInt16(hex, 5), tenths))

\* toLinear(c / 255) for c = 0..255 (entry c + 1), in units of 1e-10 and
\* split in two: the value is toLinearHigh * 1e-5 + toLinearLow * 1e-10.
\*   c <= 0.03928 ? c / 12.92 : ((c + 0.055) / 1.055) ^ 2.4
toLinearHigh ==
  <<
    0, 30, 60, 91, 121, 151, 182, 212, 242, 273, 303, 334,
    367, 402, 439, 477, 518, 560, 604, 651, 699, 749, 802, 856,
    913, 972, 1032, 1096, 1161, 1228, 1298, 1370, 1444, 1520, 1599, 1680,
    1764, 1850, 1938, 2028, 2121, 2217, 2315, 2415, 2518, 2624, 2732, 2842,
    2955, 3071, 3189, 3310, 3433, 3560, 3688, 3820, 3954, 4091, 4231, 4373,
    4518, 4666, 4817, 4970, 5126, 5286, 5448, 5612, 5780, 5951, 6124, 6301,
    6480, 6662, 6847, 7036, 7227, 7421, 7618, 7818, 8021, 8228, 8437, 8650,
    8865, 9084, 9305, 9530, 9758, 9989, 10224, 10461, 10702, 10946, 11193, 11443,
    11697, 11953, 12213, 12477, 12743, 13013, 13286, 13563, 13843, 14126, 14412, 14702,
    14995, 15292, 15592, 15896, 16202, 16513, 16826, 17144, 17464, 17788, 18116, 18447,
    18782, 19120, 19461, 19806, 20155, 20507, 20863, 21223, 21586, 21952, 22322, 22696,
    23074, 23455, 23839, 24228, 24620, 25015, 25415, 25818, 26225, 26635, 27049, 27467,
    27889, 28314, 28744, 29177, 29613, 30054, 30498, 30946, 31398, 31854, 32314, 32777,
    33245, 33716, 34191, 34670, 35153, 35640, 36130, 36625, 37123, 37626, 38132, 38642,
    39157, 39675, 40197, 40724, 41254, 41788, 42326, 42869, 43415, 43965, 44520, 45078,
    45641, 46207, 46778, 47353, 47932, 48514, 49102, 49693, 50288, 50888, 51491, 52099,
    52711, 53327, 53947, 54572, 55201, 55834, 56471, 57112, 57758, 58407, 59061, 59720,
    60382, 61049, 61720, 62396, 63075, 63759, 64447, 65140, 65837, 66538, 67244, 67954,
    68668, 69387, 70110, 70837, 71569, 72305, 73046, 73791, 74540, 75294, 76052, 76815,
    77582, 78353, 79129, 79910, 80695, 81484, 82278, 83076, 83879, 84687, 85499, 86315,
    87136, 87962, 88792, 89626, 90466, 91309, 92158, 93011, 93868, 94730, 95597, 96468,
    97344, 98225, 99110, 100000
  >>

toLinearLow ==
  <<
    0, 35270, 70540, 5810, 41079, 76349, 11619, 46889, 82159, 17429, 52698, 65358,
    65073, 47170, 14420, 69535, 15167, 53916, 88330, 20908, 54102, 90320, 31930, 81256,
    40587, 12173, 98230, 940, 22452, 64884, 30323, 20830, 38436, 85144, 62934, 73758,
    19545, 2201, 23610, 85631, 90104, 38848, 33662, 76324, 68596, 12219, 8916, 60395,
    68344, 34437, 60331, 47666, 98068, 13149, 94504, 43716, 62353, 51969, 14106, 50293,
    62044, 50863, 18242, 65660, 94584, 6470, 2764, 84900, 54302, 12382, 60542, 177,
    32667, 59386, 81698, 957, 18507, 35684, 53815, 74218, 98203, 27071, 62115, 4620,
    55863, 17112, 89628, 74666, 73471, 87282, 17331, 64841, 31030, 17108, 24278, 53738,
    6678, 84280, 87722, 18176, 76804, 64767, 83216, 33297, 16150, 32911, 84709, 72665,
    97898, 61520, 64637, 8351, 93756, 21945, 94002, 11007, 74037, 84160, 42442, 49945,
    7723, 16827, 78304, 93196, 62538, 87364, 68701, 7574, 5001, 61997, 79573, 58735,
    485, 5822, 75738, 11225, 13267, 82847, 20943, 28529, 6575, 56048, 77910, 73121,
    42635, 87404, 8377, 6498, 82708, 37944, 73141, 89228, 87134, 67781, 32091, 80981,
    15363, 36150, 44249, 40564, 25995, 1441, 67798, 25956, 76805, 21230, 60114, 94338,
    24777, 52307, 77798, 2119, 26135, 50708, 76700, 4966, 36362, 71738, 11945, 57828,
    10232, 69997, 37961, 14961, 1831, 99401, 8498, 29951, 64580, 13209, 76654, 55732,
    51257, 64040, 94890, 44614, 14015, 3896, 15057, 48295, 4404, 84179, 88409, 17884,
    73389, 55708, 65624, 3917, 71363, 68740, 96820, 56374, 48173, 72983, 31570, 24696,
    53124, 17613, 18919, 57799, 35005, 51289, 7401, 4088, 42095, 22168, 45047, 11472,
    22183, 77915, 79403, 27380, 22577, 65722, 57544, 98768, 90117, 32315, 26081, 72135,
    71192, 23969, 31179, 93534, 11744, 86518, 18563, 8584, 57285, 65367, 33532, 62479,
    52904, 5503, 20971, 0
  >>

toLinear(c) == [high |-> toLinearHigh[c + 1], low |-> toLinearLow[c + 1]]

\* luminance > 0.179 ? "#000000" : "#ffffff", the three channels parsed
\* once.  The luminance is summed in units of 1e-14, high and low parts apart
\* (each sum stays below 2^31): it is 100000 * high + low, and exceeds
\* 0.179 = 179000000 * 100000 units when high + (low - 1) \div 100000 reaches
\* 179000000.  No colour of the 2^24 has a luminance closer than 1e-8 to
\* 0.179, so the comparison agrees with the binary64 one on every colour.
contrastForeground(hex) ==
    IF \E r \in {toLinear(parseInt16(hex, 1))},
          g \in {toLinear(parseInt16(hex, 3))},
          b \in {toLinear(parseInt16(hex, 5))} :
          LET high == 2126 * r.high + 7152 * g.high + 722 * b.high
              low  == 2126 * r.low + 7152 * g.low + 722 * b.low
          IN  high + ((low - 1) \div 100000) >= 179000000
    THEN HexColor(0, 0, 0)
    ELSE HexColor(255, 255, 255)

\* The colours generateRandomColor may return in the model.
generateRandomColor == {hslToHex(x.h, x.s, x.l) : x \in randomHsl}

\* ------------------------------------------------------------- the world
\* Repositories are identified by rootUri.fsPath.
Repos == {"/a", "/a/sub"}

Branches == {"main", "feature-1", "feature-2", "feature-3"}

\* repo.state.HEAD?.name: a branch name, or undefined (detached, no HEAD).
HeadNames == Branches \cup {undefined}

\* The checkouts explored when both repositories are open: the nested
\* worktree only switches between main and feature-1.
Checkouts == [r \in Repos |-> IF r = "/a"
                               THEN {undefined, "main", "feature-1", "feature-2"}
                               ELSE {"main", "feature-1"}]

\* The checkouts explored when only "/a" is open.
SoloCheckouts == [r \in Repos |-> IF r = "/a" THEN HeadNames ELSE {"main"}]

\* vscode.window.activeTextEditor?.document.uri.fsPath
ActiveUris == {undefined, "/a/sub/y.ts"}

\* s.startsWith(p)
startsWith(s, p) == Len(p) <= Len(s) /\ SubSeq(s, 1, Len(p)) = p

\* --------------------------------------------------------------- state
VARIABLES
    head,                 \* repo.state.HEAD?.name of every repository
    repositories,         \* git.repositories, in the order they were opened
    lastBranch,           \* watchRepo: lastBranch of each watcher
    pending,              \* watchRepo: callbacks chained on `pending`, not yet run
    settled,              \* watchRepo: how the last finished link of `pending` settled
    task,                 \* the running (or last) handleBranchChange of each repository
    cmd,                  \* the running (or last) command callback of each slot
    globalState,          \* context.globalState: key -> colour
    colorCustomizations,  \* workbench.colorCustomizations, workspace scope
    message,              \* the last message shown to the user
    session,              \* how many times the extension host was started
    budget,               \* environment events still allowed
    recording,            \* whether the two histories below are kept
    enqs,                 \* history: branch names for which work was enqueued
    writes                \* history: finished handler steps of each watcher

vars == <<head, repositories, lastBranch, pending, settled, task, cmd,
          globalState, colorCustomizations, message, session, budget,
          recording, enqs, writes>>

\* ------------------------------------------------------ state key helpers
\* A variant of colorKey with no separator between the path and the name.
colorKeyNoSeparator(repoPath, branchName) == "colors:" \o repoPath \o branchName

\* `colors:${repoPath}:${branchName}`
colorKey(repoPath, branchName) == "colors:" \o repoPath \o ":" \o branchName

\* A variant of Get that never finds the key.
GetMissing(state, key) == undefined

\* context.globalState.get(key)
Get(state, key) == IF key \in DOMAIN state THEN state[key] ELSE undefined

\* A variant of Update that ignores a request to remove a key.
UpdateNeverDeletes(state, key, value) ==
    IF value = undefined
    THEN state
    ELSE [k \in DOMAIN state \cup {key} |-> IF k = key THEN value ELSE state[k]]

\* context.globalState.update(key, value): the value is visible to get() as
\* soon as update() is called; undefined removes the key.
Update(state, key, value) ==
    IF value = undefined
    THEN [k \in DOMAIN state \ {key} |-> state[k]]
    ELSE [k \in DOMAIN state \cup {key} |-> IF k = key THEN value ELSE state[k]]

\* ------------------------------------------------------------ core logic
\* config.get("defaultBranches", ["main", "master"])
defaultBranches == <<"main", "master">>

includes(array, x) == \E i \in 1..Len(array) : array[i] = x

\* A variant of isDefaultBranch that compares with the last entry only.
isDefaultBranchLastOnly(branchName) ==
    branchName = defaultBranches[Len(defaultBranches)]

\* A variant of isDefaultBranch for which no branch is a default branch.
isDefaultBranchNever(branchName) == FALSE

isDefaultBranch(branchName) == includes(defaultBranches, branchName)

\* uri.fsPath === root || uri.fsPath.startsWith(root + path.sep)
isMatch(uri, root) == uri = root \/ startsWith(uri, root \o "/")

\* The longest matching root wins, the first one on a tie; without an editor
\* or a match, git.repositories[0] (undefined when there is none).
resolveRepository(repos, uri) ==
    LET matches == {i \in 1..Len(repos) : uri # undefined /\ isMatch(uri, repos[i])}
        best == CHOOSE i \in matches :
                    \A j \in matches :
                        \/ Len(repos[j]) < Len(repos[i])
                        \/ Len(repos[j]) = Len(repos[i]) /\ i <= j
    IN  IF matches # {} THEN repos[best]
        ELSE IF Len(repos) > 0 THEN repos[1]
        ELSE undefined

MANAGED_KEYS == <<"titleBar.activeBackground", "titleBar.activeForeground",
                  "titleBar.inactiveBackground", "titleBar.inactiveForeground",
                  "statusBar.background", "statusBar.foreground">>

ManagedKeySet == {MANAGED_KEYS[i] : i \in 1..Len(MANAGED_KEYS)}

\* config.get("colorCustomizations") ?? {}
Existing(config) == IF config = None THEN EmptyObject ELSE TheValue(config)

\* A variant of applyColor that writes the six keys without merging them into
\* the existing mapping.
applyColorNoMerge(config, color) ==
    LET fg == contrastForeground(color)
        inactiveBg == darken(color, 3)
        inactiveFg == contrastForeground(inactiveBg)
    IN  Some([k \in ManagedKeySet |->
                CASE k = "titleBar.activeBackground"   -> color
                  [] k = "titleBar.activeForeground"   -> fg
                  [] k = "titleBar.inactiveBackground" -> inactiveBg
                  [] k = "titleBar.inactiveForeground" -> inactiveFg
                  [] k = "statusBar.background"        -> color
                  [] k = "statusBar.foreground"        -> fg])

\* applyColor up to its await: the value handed to config.update.
applyColor(config, color) ==
    LET fg == contrastForeground(color)
        inactiveBg == darken(color, 3)
        inactiveFg == contrastForeground(inactiveBg)
        existing == Existing(config)
        updated == [k \in DOMAIN existing \cup ManagedKeySet |->
                      CASE k = "titleBar.activeBackground"   -> color
                        [] k = "titleBar.activeForeground"   -> fg
                        [] k = "titleBar.inactiveBackground" -> inactiveBg
                        [] k = "titleBar.inactiveForeground" -> inactiveFg
                        [] k = "statusBar.background"        -> color
                        [] k = "statusBar.foreground"        -> fg
                        [] OTHER                             -> existing[k]]
    IN  Some(updated)

\* A variant of clearColor that forgets the two status bar keys.
clearColorTitleBarOnly(config) ==
    LET existing == Existing(config)
        cleaned == [k \in {x \in DOMAIN existing :
                              ~includes(SubSeq(MANAGED_KEYS, 1, 4), x)} |-> existing[k]]
    IN  IF Cardinality(DOMAIN cleaned) > 0 THEN Some(cleaned) ELSE None

\* A variant of clearColor that writes the cleaned object even when it is
\* empty.
clearColorWritesEmptyObject(config) ==
    Some([k \in DOMAIN Existing(config) \ ManagedKeySet |-> Existing(config)[k]])

\* A variant of clearColor that always writes undefined.
clearColorKeepsNothing(config) == None

\* clearColor up to its await: the value handed to config.update.
clearColor(config) ==
    LET existing == Existing(config)
        cleaned == [k \in {x \in DOMAIN existing : ~includes(MANAGED_KEYS, x)} |->
                      existing[k]]
    IN  IF Cardinality(DOMAIN cleaned) > 0 THEN Some(cleaned) ELSE None

\* The chain without the .catch: a rejected handler leaves `pending` rejected.
uncaught == "rejected"

\* handleBranchChange(...).catch(err => console.error(...)): the link of the
\* chain is fulfilled although the handler was rejected.
catch == "fulfilled"

\* --------------------------------------------------------------- initial
\* A handler: where it is suspended, its locals (branchName, key, color), the
\* value it handed to config.update (target), and two observations: whether it
\* took the `if (!color)` branch (fresh), and the setting it read (before).
IdleTask == [pc |-> "idle", branchName |-> undefined, key |-> undefined,
             color |-> undefined, fresh |-> FALSE, target |-> None,
             before |-> None]

\* A command callback: as for a handler; `stored` observes what the store
\* held under `key` when the command updated it.
NoCmd == [pc |-> "none", name |-> undefined, repo |-> undefined,
          branchName |-> undefined, key |-> undefined, color |-> undefined,
          stored |-> undefined, target |-> None]

\* registerCommand: the callback runs on every execution of the command,
\* whether or not an earlier execution is still suspended at an await.  Each
\* execution has its own locals; it takes the first slot nothing runs in.
CmdSlots == 1..MaxCommands
NoCommands == [c \in CmdSlots |-> NoCmd]
FreeSlots == {c \in CmdSlots : cmd[c].pc = "none"}
NewSlot == CHOOSE c \in FreeSlots : \A d \in FreeSlots : c <= d

\* What an earlier session on a branch coloured #228ec3 left in the workspace
\* settings, beside a key of another owner.
UnrelatedKeys == ("foo.bar" :> 1)

StaleCustomizations ==
    ( "titleBar.activeBackground"   :> <<"#", "2", "2", "8", "e", "c", "3">>
   @@ "titleBar.activeForeground"   :> <<"#", "0", "0", "0", "0", "0", "0">>
   @@ "titleBar.inactiveBackground" :> <<"#", "1", "8", "6", "3", "8", "9">>
   @@ "titleBar.inactiveForeground" :> <<"#", "f", "f", "f", "f", "f", "f">>
   @@ "statusBar.background"        :> <<"#", "2", "2", "8", "e", "c", "3">>
   @@ "statusBar.foreground"        :> <<"#", "0", "0", "0", "0", "0", "0">>
   @@ UnrelatedKeys )

InitialCustomizations == {None, Some(StaleCustomizations)}

\* The store of a first session is empty; a later session (after Restart)
\* starts with the assignments the earlier ones left.
InitialStates == {EmptyObject}

\* The state after activate() found no repository open yet, every repository
\* on one of its checkouts.
InitWith(checkouts, rec, max) ==
    /\ head \in {f \in [Repos -> HeadNames] : \A r \in Repos : f[r] \in checkouts[r]}
    /\ recording = rec
    /\ repositories = <<>>
    /\ lastBranch = [r \in Repos |-> undefined]
    /\ pending = [r \in Repos |-> 0]
    /\ settled = [r \in Repos |-> "fulfilled"]
    /\ task = [r \in Repos |-> IdleTask]
    /\ cmd = NoCommands
    /\ globalState \in InitialStates
    /\ colorCustomizations \in InitialCustomizations
    /\ message = "none"
    /\ session = 1
    /\ budget = max
    /\ enqs = [r \in Repos |-> <<>>]
    /\ writes = [r \in Repos |-> <<>>]

Init == InitWith(Checkouts, FALSE, MaxEvents)

Watched(r) == \E i \in 1..Len(repositories) : repositories[i] = r

\* ---------------------------------------------------------------- watcher
\* A variant of enqueue in which new work replaces the work still queued
\* ("only the latest matters") instead of being chained behind it.
enqueueLatestOnly(r, current, last, chained) ==
    IF current # last
    THEN /\ lastBranch' = [lastBranch EXCEPT ![r] = current]
         /\ pending' = [pending EXCEPT ![r] = 1]
         /\ enqs' = IF recording
                    THEN [enqs EXCEPT ![r] =
                            Append(@, [branch |-> current, finished |-> Len(writes[r])])]
                    ELSE enqs
    ELSE /\ lastBranch' = [lastBranch EXCEPT ![r] = last]
         /\ pending' = [pending EXCEPT ![r] = chained]
         /\ UNCHANGED enqs

\* A variant of enqueue without the comparison with the last branch: every
\* notification chains a step.
enqueueAlways(r, current, last, chained) ==
    /\ lastBranch' = [lastBranch EXCEPT ![r] = current]
    /\ pending' = [pending EXCEPT ![r] = chained + 1]
    /\ enqs' = IF recording
               THEN [enqs EXCEPT ![r] =
                       Append(@, [branch |-> current, finished |-> Len(writes[r])])]
               ELSE enqs

\* A variant of enqueue that drops new work while earlier work is still
\* queued.
enqueueDropsWhenBusy(r, current, last, chained) ==
    IF current # last
    THEN /\ lastBranch' = [lastBranch EXCEPT ![r] = current]
         /\ pending' = [pending EXCEPT ![r] = IF chained > 0 THEN chained ELSE 1]
         /\ enqs' = IF recording
                    THEN [enqs EXCEPT ![r] =
                            Append(@, [branch |-> current, finished |-> Len(writes[r])])]
                    ELSE enqs
    ELSE /\ lastBranch' = [lastBranch EXCEPT ![r] = last]
         /\ pending' = [pending EXCEPT ![r] = chained]
         /\ UNCHANGED enqs

\* enqueue of watchRepo, for the watcher state (last, chained) it runs on.
\* The history records the branch and whether the previous step had finished.
enqueue(r, current, last, chained) ==
    IF current # last
    THEN /\ lastBranch' = [lastBranch EXCEPT ![r] = current]
         /\ pending' = [pending EXCEPT ![r] = chained + 1]
         /\ enqs' = IF recording
                    THEN [enqs EXCEPT ![r] =
                            Append(@, [branch |-> current, finished |-> Len(writes[r])])]
                    ELSE enqs
    ELSE /\ lastBranch' = [lastBranch EXCEPT ![r] = last]
         /\ pending' = [pending EXCEPT ![r] = chained]
         /\ UNCHANGED enqs

\* git.onDidOpenRepository(watchRepo), and the loop over git.repositories
\* of activate: a fresh watcher, then its first enqueue().
watchRepo(r) ==
    /\ budget > 0
    /\ ~Watched(r)
    /\ repositories' = Append(repositories, r)
    /\ enqueue(r, head[r], undefined, 0)
    /\ budget' = budget - 1
    /\ UNCHANGED <<head, settled, task, cmd, globalState, colorCustomizations,
                   message, session, recording, writes>>

\* The checked-out branch of a watched repository changes; the git extension
\* updates repo.state and fires onDidChange, which runs enqueue.
BranchChange(r, b) ==
    /\ budget > 0
    /\ Watched(r)
    /\ b # head[r]
    /\ head' = [head EXCEPT ![r] = b]
    /\ enqueue(r, b, lastBranch[r], pending[r])
    /\ budget' = budget - 1
    /\ UNCHANGED <<repositories, settled, task, cmd, globalState,
                   colorCustomizations, message, session, recording, writes>>

\* onDidChange fires for a reason other than the branch (staging, fetch...).
onDidChange(r) ==
    /\ Watched(r)
    /\ enqueue(r, head[r], lastBranch[r], pending[r])
    /\ UNCHANGED <<head, repositories, settled, task, cmd, globalState,
                   colorCustomizations, message, session, budget, recording, writes>>

\* A variant of handleBranchChange that is called as soon as it is enqueued,
\* without waiting for the step before it.
handleBranchChangeUnchained(r) ==
    /\ Watched(r)
    /\ pending[r] > 0
    /\ pending' = [pending EXCEPT ![r] = @ - 1]
    /\ LET branchName == head[r]
           key == colorKey(r, branchName)
           stored == Get(globalState, key)
       IN  IF ~Truthy(branchName) \/ isDefaultBranch(branchName)
           THEN /\ task' = [task EXCEPT ![r] =
                       [pc |-> "awaitConfig", branchName |-> branchName,
                        key |-> undefined, color |-> undefined,
                        fresh |-> FALSE,
                        target |-> clearColor(colorCustomizations),
                        before |-> colorCustomizations]]
                /\ UNCHANGED globalState
           ELSE IF Truthy(stored)
           THEN /\ task' = [task EXCEPT ![r] =
                       [pc |-> "awaitConfig", branchName |-> branchName,
                        key |-> key, color |-> stored, fresh |-> FALSE,
                        target |-> applyColor(colorCustomizations, stored),
                        before |-> colorCustomizations]]
                /\ UNCHANGED globalState
           ELSE \E color \in generateRandomColor :
                /\ globalState' = Update(globalState, key, color)
                /\ task' = [task EXCEPT ![r] =
                       [pc |-> "awaitStore", branchName |-> branchName,
                        key |-> key, color |-> color, fresh |-> TRUE,
                        target |-> None,
                        before |-> colorCustomizations]]
    /\ UNCHANGED <<head, repositories, lastBranch, settled, cmd,
                   colorCustomizations, message, session, budget, recording, enqs, writes>>

\* ------------------------------------------------------ handleBranchChange
\* pending.then(() => handleBranchChange(context, repo)...): the callback runs
\* once the previous link is fulfilled, and runs up to its first await.
handleBranchChange(r) ==
    /\ Watched(r)
    /\ pending[r] > 0
    /\ task[r].pc = "idle"
    /\ settled[r] = "fulfilled"
    /\ pending' = [pending EXCEPT ![r] = @ - 1]
    /\ LET branchName == head[r]
           key == colorKey(r, branchName)
           stored == Get(globalState, key)
       IN  IF ~Truthy(branchName) \/ isDefaultBranch(branchName)
           THEN /\ task' = [task EXCEPT ![r] =
                       [pc |-> "awaitConfig", branchName |-> branchName,
                        key |-> undefined, color |-> undefined,
                        fresh |-> FALSE,
                        target |-> clearColor(colorCustomizations),
                        before |-> colorCustomizations]]
                /\ UNCHANGED globalState
           ELSE IF Truthy(stored)
           THEN /\ task' = [task EXCEPT ![r] =
                       [pc |-> "awaitConfig", branchName |-> branchName,
                        key |-> key, color |-> stored, fresh |-> FALSE,
                        target |-> applyColor(colorCustomizations, stored),
                        before |-> colorCustomizations]]
                /\ UNCHANGED globalState
           ELSE \E color \in generateRandomColor :
                /\ globalState' = Update(globalState, key, color)
                /\ task' = [task EXCEPT ![r] =
                       [pc |-> "awaitStore", branchName |-> branchName,
                        key |-> key, color |-> color, fresh |-> TRUE,
                        target |-> None,
                        before |-> colorCustomizations]]
    /\ UNCHANGED <<head, repositories, lastBranch, settled, cmd,
                   colorCustomizations, message, session, budget, recording, enqs, writes>>

Finished(r, ok) ==
    /\ writes' = IF recording
                  THEN [writes EXCEPT ![r] =
                          Append(@, [branchName |-> task[r].branchName,
                                     color |-> task[r].color,
                                     fresh |-> task[r].fresh, ok |-> ok])]
                  ELSE writes
    /\ task' = [task EXCEPT ![r].pc = "idle"]

\* await context.globalState.update(key, color) resolves; applyColor runs up
\* to its own await.
StoreResolved(r) ==
    /\ task[r].pc = "awaitStore"
    /\ task' = [task EXCEPT ![r].pc = "awaitConfig",
                            ![r].target = applyColor(colorCustomizations, task[r].color),
                            ![r].before = colorCustomizations]
    /\ UNCHANGED <<head, repositories, lastBranch, pending, settled, cmd,
                   globalState, colorCustomizations, message, session, budget, recording, enqs, writes>>

\* await context.globalState.update(key, color) rejects (the value stays in
\* memory, as Memento does): handleBranchChange is rejected, .catch logs.
StoreRejected(r) ==
    /\ budget > 0
    /\ task[r].pc = "awaitStore"
    /\ Finished(r, FALSE)
    /\ settled' = [settled EXCEPT ![r] = catch]
    /\ budget' = budget - 1
    /\ UNCHANGED <<head, repositories, lastBranch, pending, cmd, globalState,
                   colorCustomizations, message, session, recording, enqs>>

\* await config.update("colorCustomizations", target, Workspace) resolves:
\* the setting now holds what the handler computed before the await.
ConfigResolved(r) ==
    /\ task[r].pc = "awaitConfig"
    /\ colorCustomizations' = task[r].target
    /\ Finished(r, TRUE)
    /\ settled' = [settled EXCEPT ![r] = "fulfilled"]
    /\ UNCHANGED <<head, repositories, lastBranch, pending, cmd, globalState,
                   message, session, budget, recording, enqs>>

\* await config.update(...) rejects: nothing is written, .catch logs.
ConfigRejected(r) ==
    /\ budget > 0
    /\ task[r].pc = "awaitConfig"
    /\ Finished(r, FALSE)
    /\ settled' = [settled EXCEPT ![r] = catch]
    /\ budget' = budget - 1
    /\ UNCHANGED <<head, repositories, lastBranch, pending, cmd, globalState,
                   colorCustomizations, message, session, recording, enqs>>

\* --------------------------------------------------------------- commands
\* worktreeRainbow.reroll, up to its first await (or its early return).
reroll(uri) ==
    /\ budget > 0
    /\ FreeSlots # {}
    /\ budget' = budget - 1
    /\ LET c == NewSlot
           repo == resolveRepository(repositories, uri)
           branchName == head[repo]
           key == colorKey(repo, branchName)
           returned == [NoCmd EXCEPT !.name = "reroll", !.repo = repo]
       IN  IF repo = undefined
           THEN /\ message' = "warning: No git repository found."
                /\ cmd' = [cmd EXCEPT ![c] = returned]
                /\ UNCHANGED globalState
           ELSE IF ~Truthy(branchName)
           THEN /\ message' = "warning: No branch detected."
                /\ cmd' = [cmd EXCEPT ![c] = returned]
                /\ UNCHANGED globalState
           ELSE IF isDefaultBranch(branchName)
           THEN /\ message' = "information: is a default branch (no color applied)."
                /\ cmd' = [cmd EXCEPT ![c] = [returned EXCEPT !.branchName = branchName]]
                /\ UNCHANGED globalState
           ELSE \E color \in generateRandomColor :
                /\ globalState' = Update(globalState, key, color)
                /\ cmd' = [cmd EXCEPT ![c] =
                              [pc |-> "awaitStore", name |-> "reroll", repo |-> repo,
                               branchName |-> branchName, key |-> key,
                               color |-> color,
                               stored |-> Get(globalState, key), target |-> None]]
                /\ UNCHANGED message
    /\ UNCHANGED <<head, repositories, lastBranch, pending, settled, task,
                   colorCustomizations, session, recording, enqs, writes>>

\* reroll: await context.globalState.update(key, color) resolves; applyColor
\* runs up to its await.
RerollStoreResolved(c) ==
    /\ cmd[c].pc = "awaitStore"
    /\ cmd[c].name = "reroll"
    /\ cmd' = [cmd EXCEPT ![c].pc = "awaitConfig",
                          ![c].target = applyColor(colorCustomizations, cmd[c].color)]
    /\ UNCHANGED <<head, repositories, lastBranch, pending, settled, task,
                   globalState, colorCustomizations, message, session, budget, recording, enqs, writes>>

\* reroll: await applyColor(color) resolves.
RerollConfigResolved(c) ==
    /\ cmd[c].pc = "awaitConfig"
    /\ cmd[c].name = "reroll"
    /\ colorCustomizations' = cmd[c].target
    /\ cmd' = [cmd EXCEPT ![c].pc = "none"]
    /\ message' = "information: New color"
    /\ UNCHANGED <<head, repositories, lastBranch, pending, settled, task,
                   globalState, session, budget, recording, enqs, writes>>

\* worktreeRainbow.clear, up to its first await.
clear(uri) ==
    /\ budget > 0
    /\ FreeSlots # {}
    /\ budget' = budget - 1
    /\ LET c == NewSlot
           repo == resolveRepository(repositories, uri)
           branchName == IF repo = undefined THEN undefined ELSE head[repo]
           key == colorKey(repo, branchName)
       IN  IF repo # undefined /\ Truthy(branchName)
           THEN /\ globalState' = Update(globalState, key, undefined)
                /\ cmd' = [cmd EXCEPT ![c] =
                              [pc |-> "awaitStore", name |-> "clear", repo |-> repo,
                               branchName |-> branchName, key |-> key,
                               color |-> undefined,
                               stored |-> Get(globalState, key), target |-> None]]
           ELSE /\ cmd' = [cmd EXCEPT ![c] =
                              [pc |-> "awaitConfig", name |-> "clear", repo |-> repo,
                               branchName |-> branchName, key |-> undefined,
                               color |-> undefined, stored |-> undefined,
                               target |-> clearColor(colorCustomizations)]]
                /\ UNCHANGED globalState
    /\ UNCHANGED <<head, repositories, lastBranch, pending, settled, task,
                   colorCustomizations, message, session, recording, enqs, writes>>

\* clear: await context.globalState.update(key, undefined) resolves;
\* clearColor runs up to its await.
ClearStoreResolved(c) ==
    /\ cmd[c].pc = "awaitStore"
    /\ cmd[c].name = "clear"
    /\ cmd' = [cmd EXCEPT ![c].pc = "awaitConfig",
                          ![c].target = clearColor(colorCustomizations)]
    /\ UNCHANGED <<head, repositories, lastBranch, pending, settled, task,
                   globalState, colorCustomizations, message, session, budget, recording, enqs, writes>>

\* clear: await clearColor() resolves.
ClearConfigResolved(c) ==
    /\ cmd[c].pc = "awaitConfig"
    /\ cmd[c].name = "clear"
    /\ colorCustomizations' = cmd[c].target
    /\ cmd' = [cmd EXCEPT ![c].pc = "none"]
    /\ message' = "information: Color cleared."
    /\ UNCHANGED <<head, repositories, lastBranch, pending, settled, task,
                   globalState, session, budget, recording, enqs, writes>>

\* An await of a command rejects: the catch block reports the failure.
CommandRejected(c) ==
    /\ budget > 0
    /\ cmd[c].pc \in {"awaitStore", "awaitConfig"}
    /\ cmd' = [cmd EXCEPT ![c].pc = "none"]
    /\ message' = IF cmd[c].name = "reroll"
                  THEN "error: Failed to reroll color."
                  ELSE "error: Failed to clear color."
    /\ budget' = budget - 1
    /\ UNCHANGED <<head, repositories, lastBranch, pending, settled, task,
                   globalState, colorCustomizations, session, recording, enqs, writes>>

\* ---------------------------------------------------------------- restart
\* The window is reloaded: the extension host and every watcher, handler and
\* command in it are gone; globalState and the workspace settings are kept.
Restart ==
    /\ budget > 0
    /\ repositories' = <<>>
    /\ lastBranch' = [r \in Repos |-> undefined]
    /\ pending' = [r \in Repos |-> 0]
    /\ settled' = [r \in Repos |-> "fulfilled"]
    /\ task' = [r \in Repos |-> IdleTask]
    /\ cmd' = NoCommands
    /\ message' = "none"
    /\ enqs' = [r \in Repos |-> <<>>]
    /\ writes' = [r \in Repos |-> <<>>]
    /\ session' = session + 1
    /\ budget' = budget - 1
    /\ UNCHANGED <<head, globalState, colorCustomizations, recording>>

\* ---------------------------------------------------------- specifications
Next ==
    \/ \E r \in Repos : watchRepo(r)
    \/ \E r \in Repos : \E b \in Checkouts[r] : BranchChange(r, b)
    \/ \E r \in Repos : onDidChange(r)
    \/ \E r \in Repos : handleBranchChange(r)
    \/ \E r \in Repos : StoreResolved(r)
    \/ \E r \in Repos : StoreRejected(r)
    \/ \E r \in Repos : ConfigResolved(r)
    \/ \E r \in Repos : ConfigRejected(r)
    \/ \E uri \in ActiveUris : reroll(uri)
    \/ \E c \in CmdSlots : RerollStoreResolved(c)
    \/ \E c \in CmdSlots : RerollConfigResolved(c)
    \/ \E uri \in ActiveUris : clear(uri)
    \/ \E c \in CmdSlots : ClearStoreResolved(c)
    \/ \E c \in CmdSlots : ClearConfigResolved(c)
    \/ \E c \in CmdSlots : CommandRejected(c)
    \/ Restart

\* Every repository of the workspace, the commands, I/O failures, restarts.
Spec == Init /\ [][Next]_vars

\* One watched repository, no command, no I/O failure, no restart.
SoloRepos == {"/a"}

SoloInit == InitWith(SoloCheckouts, TRUE, MaxSoloEvents)

SoloNext ==
    \/ \E r \in SoloRepos : watchRepo(r)
    \/ \E r \in SoloRepos : \E b \in SoloCheckouts[r] : BranchChange(r, b)
    \/ \E r \in SoloRepos : onDidChange(r)
    \/ \E r \in SoloRepos : handleBranchChange(r)
    \/ \E r \in SoloRepos : StoreResolved(r)
    \/ \E r \in SoloRepos : ConfigResolved(r)

SoloSpec == SoloInit /\ [][SoloNext]_vars
\* One watched repository and I/O failures; no command, no restart.
FaultInit == InitWith(SoloCheckouts, TRUE, MaxFaultEvents)

FaultNext ==
    \/ \E r \in SoloRepos : watchRepo(r)
    \/ \E r \in SoloRepos : \E b \in SoloCheckouts[r] : BranchChange(r, b)
    \/ \E r \in SoloRepos : onDidChange(r)
    \/ \E r \in SoloRepos : handleBranchChange(r)
    \/ \E r \in SoloRepos : StoreResolved(r)
    \/ \E r \in SoloRepos : StoreRejected(r)
    \/ \E r \in SoloRepos : ConfigResolved(r)
    \/ \E r \in SoloRepos : ConfigRejected(r)

FaultSpec == FaultInit /\ [][FaultNext]_vars

\* One watched repository and the commands; no I/O failure, no restart.
CommandCheckouts == [r \in Repos |-> IF r = "/a" THEN Checkouts[r] ELSE {"main"}]

CommandInit == InitWith(CommandCheckouts, FALSE, MaxCommandEvents)

CommandNext ==
    \/ \E r \in SoloRepos : watchRepo(r)
    \/ \E r \in SoloRepos : \E b \in CommandCheckouts[r] : BranchChange(r, b)
    \/ \E r \in SoloRepos : onDidChange(r)
    \/ \E r \in SoloRepos : handleBranchChange(r)
    \/ \E r \in SoloRepos : StoreResolved(r)
    \/ \E r \in SoloRepos : ConfigResolved(r)
    \/ \E uri \in ActiveUris : reroll(uri)
    \/ \E c \in CmdSlots : RerollStoreResolved(c)
    \/ \E c \in CmdSlots : RerollConfigResolved(c)
    \/ \E uri \in ActiveUris : clear(uri)
    \/ \E c \in CmdSlots : ClearStoreResolved(c)
    \/ \E c \in CmdSlots : ClearConfigResolved(c)

CommandSpec == CommandInit /\ [][CommandNext]_vars

\* The promise callbacks that are ready do run (the event loop drains its
\* job queue), and every store or configuration update that was issued
\* eventually resolves or rejects.
Fairness ==
    \A r \in SoloRepos :
        /\ WF_vars(handleBranchChange(r))
        /\ WF_vars(StoreResolved(r) \/ StoreRejected(r))
        /\ WF_vars(ConfigResolved(r) \/ ConfigRejected(r))

LiveSpec == FaultInit /\ [][FaultNext]_vars /\ Fairness

\* Both repositories, with the histories kept: the watchers, the handlers
\* and their I/O failures.
PairInit == InitWith(Checkouts, TRUE, MaxPairEvents)

PairNext ==
    \/ \E r \in Repos : watchRepo(r)
    \/ \E r \in Repos : \E b \in Checkouts[r] : BranchChange(r, b)
    \/ \E r \in Repos : onDidChange(r)
    \/ \E r \in Repos : handleBranchChange(r)
    \/ \E r \in Repos : StoreResolved(r)
    \/ \E r \in Repos : StoreRejected(r)
    \/ \E r \in Repos : ConfigResolved(r)
    \/ \E r \in Repos : ConfigRejected(r)

PairSpec == PairInit /\ [][PairNext]_vars

\* ============================================================ properties
\* The six keys the extension owns in workbench.colorCustomizations.
TheSixKeys == {"titleBar.activeBackground", "titleBar.activeForeground",
               "titleBar.inactiveBackground", "titleBar.inactiveForeground",
               "statusBar.background", "statusBar.foreground"}

ManagedPresent(config) == TheSixKeys \cap DOMAIN Existing(config)

\* titleBar.activeBackground of a setting, undefined when the key is absent.
ActiveBackground(config) ==
    IF "titleBar.activeBackground" \in DOMAIN Existing(config)
    THEN Existing(config)["titleBar.activeBackground"]
    ELSE undefined

\* The six entries applyPalette writes for a colour.
PaletteOf(color) ==
    [k \in TheSixKeys |->
        CASE k = "titleBar.activeBackground"   -> color
          [] k = "titleBar.activeForeground"   -> contrastForeground(color)
          [] k = "titleBar.inactiveBackground" -> darken(color, 3)
          [] k = "titleBar.inactiveForeground" -> contrastForeground(darken(color, 3))
          [] k = "statusBar.background"        -> color
          [] k = "statusBar.foreground"        -> contrastForeground(color)]

HoldsPalette(config, color) ==
    /\ TheSixKeys \subseteq DOMAIN Existing(config)
    /\ \A k \in TheSixKeys : Existing(config)[k] = PaletteOf(color)[k]

Colored(branchName) == Truthy(branchName) /\ branchName \notin {"main", "master"}

\* No handler of r is running or queued.
Idle(r) == pending[r] = 0 /\ task[r].pc = "idle"

\* The setting matches the branch r is on.
Matches(r) ==
    IF Colored(head[r])
    THEN /\ Truthy(Get(globalState, colorKey(r, head[r])))
         /\ HoldsPalette(colorCustomizations, Get(globalState, colorKey(r, head[r])))
    ELSE ManagedPresent(colorCustomizations) = {}

\* Steps of a handler, told apart by what they change.
Starts(r) == task[r].pc = "idle" /\ task'[r].pc # "idle"
Completes(r) == task[r].pc = "awaitConfig" /\ task'[r].pc = "idle" /\ budget' = budget
Fails(r) == task[r].pc # "idle" /\ task'[r].pc = "idle" /\ budget' # budget
            /\ session' = session

\* ----------------------------------------------------------------- C1
Burst == <<"feature-1", "feature-2", "feature-3">>

\* Work was enqueued for feature-1, feature-2, feature-3, each notification
\* arriving before the step enqueued before it had finished.
InBurst(r) ==
    /\ Len(enqs[r]) = 3
    /\ \A i \in 1..3 : enqs[r][i].branch = Burst[i]
    /\ \A i \in 2..3 : enqs[r][i].finished < i - 1

BurstIndex(branchName) == CHOOSE i \in 1..3 : Burst[i] = branchName

\* C1 as stated: after such a burst the setting was written with feature-1's
\* assigned colour, then feature-2's, then feature-3's, and holds feature-3's.
C1_AsStated ==
    (Idle("/a") /\ InBurst("/a")) =>
        /\ Len(writes["/a"]) = 3
        /\ \A i \in 1..3 :
              /\ writes["/a"][i].ok
              /\ Truthy(Get(globalState, colorKey("/a", Burst[i])))
              /\ writes["/a"][i].color = Get(globalState, colorKey("/a", Burst[i]))
        /\ HoldsPalette(colorCustomizations, Get(globalState, colorKey("/a", "feature-3")))

\* C1 amended: after such a burst the setting was written three times, each
\* time with the colour assigned to the branch checked out when that step
\* started: a branch of the burst no earlier than the step's own and than the
\* previous step's.  The last write is feature-3's colour and the setting
\* ends holding it; feature-1's and feature-2's need not be written.
C1_BurstWritesCurrentBranch ==
    (Idle("/a") /\ InBurst("/a")) =>
        /\ Len(writes["/a"]) = 3
        /\ \A i \in 1..3 :
              LET w == writes["/a"][i] IN
              /\ w.ok
              /\ w.branchName \in {Burst[j] : j \in i..3}
              /\ i > 1 => BurstIndex(writes["/a"][i - 1].branchName) <= BurstIndex(w.branchName)
              /\ Truthy(w.color)
              /\ w.color = Get(globalState, colorKey("/a", w.branchName))
        /\ writes["/a"][3].branchName = "feature-3"
        /\ HoldsPalette(colorCustomizations, Get(globalState, colorKey("/a", "feature-3")))

\* The burst ran and the second step already wrote feature-3's colour.
C1_Witness ==
    /\ Idle("/a") /\ InBurst("/a")
    /\ Len(writes["/a"]) = 3
    /\ writes["/a"][1].branchName = "feature-1"
    /\ writes["/a"][2].branchName = "feature-3"
    /\ ~("colors:/a:feature-2" \in DOMAIN globalState)

\* ----------------------------------------------------------------- C2
\* C2: with one watched repository and no command, once the queue is idle the
\* setting matches the current branch, and every enqueued notification ran one
\* apply/clear operation.
C2_IdleMatchesBranch ==
    (Watched("/a") /\ Idle("/a")) =>
        /\ Matches("/a")
        /\ Len(writes["/a"]) = Len(enqs["/a"])

\* ----------------------------------------------------------------- C4
\* C4: whenever a watched repository has no determinable branch and its queue
\* is idle, no managed key is present, whatever the setting held initially and
\* also when the repository was detached when the watcher was attached.
C4_DetachedHasNoManagedKeys ==
    (Watched("/a") /\ ~Truthy(head["/a"]) /\ Idle("/a")) =>
        ManagedPresent(colorCustomizations) = {}

\* ----------------------------------------------------------------- C3
\* C3: a handler that finds a default branch (main, master) checked out never
\* changes the store, neither when it starts nor when it completes, and when
\* it completes no managed key is present in the setting.
C3_DefaultBranchClears ==
    [][\A r \in Repos :
          /\ (Starts(r) /\ head[r] \in {"main", "master"}) =>
                /\ globalState' = globalState
                /\ task'[r].pc = "awaitConfig"
                /\ task'[r].branchName = head[r]
          /\ (Completes(r) /\ task[r].branchName \in {"main", "master"}) =>
                /\ globalState' = globalState
                /\ ManagedPresent(colorCustomizations') = {}]_vars

\* A handler of main has completed on a setting that held the six keys, and
\* no command ran: the keys are gone and the store is still empty.
C3_Witness ==
    \E r \in Repos :
        /\ task[r].pc = "idle"
        /\ task[r].branchName = "main"
        /\ ManagedPresent(task[r].before) = TheSixKeys
        /\ ManagedPresent(colorCustomizations) = {}
        /\ \A c \in CmdSlots : cmd[c].name = undefined
        /\ session = 1
        /\ globalState = EmptyObject

\* ----------------------------------------------------------------- C5
\* C5: a handler that finds a colour stored for its (repository, branch) pair
\* resolves to exactly that colour and leaves the store untouched; an entry
\* of the store is changed or removed only by a Reroll or Clear of its pair;
\* a restart keeps the store.
C5_AssignmentStable ==
    [][/\ \A r \in Repos :
             (Starts(r) /\ Colored(head[r])
                        /\ Truthy(Get(globalState, colorKey(r, head[r])))) =>
                /\ task'[r].color = Get(globalState, colorKey(r, head[r]))
                /\ ~task'[r].fresh
                /\ ActiveBackground(task'[r].target) = task'[r].color
                /\ globalState' = globalState
       /\ \A k \in DOMAIN globalState :
             (k \notin DOMAIN globalState' \/ globalState'[k] # globalState[k]) =>
                \E c \in CmdSlots :
                   /\ cmd[c].pc = "none"
                   /\ cmd'[c].pc = "awaitStore"
                   /\ cmd'[c].key = k
       /\ session' # session => globalState' = globalState]_vars

\* In the second session a handler resolved the colour that was generated and
\* persisted in the first.
C5_Witness ==
    \E r \in Repos :
        /\ session = 2
        /\ task[r].pc = "awaitConfig"
        /\ Colored(task[r].branchName)
        /\ ~task[r].fresh
        /\ task[r].color = Get(globalState, task[r].key)
        /\ task[r].color \in generateRandomColor
        /\ \A c \in CmdSlots : cmd[c].name = undefined

\* ----------------------------------------------------------------- C6
\* C6: a handler that finds a named non-default branch without a stored
\* colour generates one, persists it under the pair's key before anything is
\* applied, and then applies its palette; with a stored colour it generates
\* nothing and applies the stored one.  When the step completes, whatever
\* ran in between, titleBar.activeBackground equals the colour stored for
\* the branch.
C6_LookupOrCreateThenApply ==
    [][\A r \in Repos :
          /\ (Starts(r) /\ Colored(head[r])) =>
                LET key == colorKey(r, head[r])
                    stored == Get(globalState, key)
                    color == task'[r].color
                IN  /\ task'[r].branchName = head[r]
                    /\ colorCustomizations' = colorCustomizations
                    /\ IF Truthy(stored)
                       THEN /\ ~task'[r].fresh
                            /\ color = stored
                            /\ globalState' = globalState
                            /\ task'[r].pc = "awaitConfig"
                       ELSE /\ task'[r].fresh
                            /\ Len(color) = 7 /\ color[1] = "#"
                            /\ DOMAIN globalState' = DOMAIN globalState \cup {key}
                            /\ globalState'[key] = color
                            /\ \A k \in DOMAIN globalState \ {key} :
                                  globalState'[k] = globalState[k]
                            /\ task'[r].pc = "awaitStore"
          /\ (Completes(r) /\ Colored(task[r].branchName)) =>
                /\ HoldsPalette(colorCustomizations', task[r].color)
                /\ Truthy(Get(globalState', colorKey(r, task[r].branchName)))
                /\ ActiveBackground(colorCustomizations') =
                      Get(globalState', colorKey(r, task[r].branchName))]_vars

\* ----------------------------------------------------------------- C7
\* The entries of a setting under keys other than the six managed ones.
Unrelated(config) ==
    [k \in DOMAIN Existing(config) \ TheSixKeys |-> Existing(config)[k]]

\* C7: no step of any handler or command changes the presence or the value of
\* a key other than the six managed ones.
C7_UnrelatedKeysPreserved ==
    [][Unrelated(colorCustomizations') = Unrelated(colorCustomizations)]_vars

\* Both repositories are watched, a generated palette replaced the one of the
\* earlier session, and foo.bar = 1 is still there.
C7_Witness ==
    /\ Len(repositories) = 2
    /\ ManagedPresent(colorCustomizations) = TheSixKeys
    /\ ActiveBackground(colorCustomizations) \in generateRandomColor
    /\ Unrelated(colorCustomizations) = UnrelatedKeys
    /\ \E r \in Repos : task[r].pc = "idle" /\ Colored(task[r].branchName)
                        /\ Unrelated(task[r].before) = UnrelatedKeys

\* ----------------------------------------------------------------- C8
Black == <<"#", "0", "0", "0", "0", "0", "0">>
White == <<"#", "f", "f", "f", "f", "f", "f">>

\* C8: in every reachable state the setting holds all six managed keys or
\* none, and when present they are consistent with titleBar.activeBackground
\* and every foreground is pure black or pure white.
C8_AllOrNoneAndConsistent ==
    LET e == Existing(colorCustomizations)
        bg == e["titleBar.activeBackground"]
    IN  \/ ManagedPresent(colorCustomizations) = {}
        \/ /\ ManagedPresent(colorCustomizations) = TheSixKeys
           /\ e["statusBar.background"] = bg
           /\ e["titleBar.activeForeground"] = contrastForeground(bg)
           /\ e["statusBar.foreground"] = contrastForeground(bg)
           /\ e["titleBar.inactiveBackground"] = darken(bg, 3)
           /\ e["titleBar.inactiveForeground"] =
                 contrastForeground(e["titleBar.inactiveBackground"])
           /\ \A k \in {"titleBar.activeForeground", "statusBar.foreground",
                        "titleBar.inactiveForeground"} : e[k] \in {Black, White}

\* The setting, empty at first, holds the palette of #29a329: black ink on
\* the active background, white ink on the darkened one.
C8_Witness ==
    LET e == Existing(colorCustomizations)
    IN  /\ DOMAIN e = TheSixKeys
        /\ e["titleBar.activeBackground"] = <<"#", "2", "9", "a", "3", "2", "9">>
        /\ e["titleBar.inactiveBackground"] = <<"#", "1", "d", "7", "2", "1", "d">>
        /\ e["titleBar.activeForeground"] = Black
        /\ e["titleBar.inactiveForeground"] = White

\* ----------------------------------------------------------------- C9
\* C9: a step that fails ends alone: the chain stays fulfilled, nothing queued
\* behind it is dropped, and the next queued step can start at once.  Every
\* step enqueued is processed: once the queue is idle as many steps ran as
\* were enqueued, and if the last one succeeded the setting matches the
\* current branch whatever failed before it.
C9_FailureContained ==
    /\ [][\A r \in Repos :
             Fails(r) => /\ settled'[r] = "fulfilled"
                         /\ pending'[r] = pending[r]
                         /\ task'[r].pc = "idle"]_vars
    /\ [](\A r \in Repos :
             /\ (Watched(r) /\ pending[r] > 0 /\ task[r].pc = "idle") =>
                   ENABLED handleBranchChange(r)
             /\ Len(writes[r]) + pending[r] + (IF task[r].pc = "idle" THEN 0 ELSE 1)
                   = Len(enqs[r])
             /\ (Idle(r) /\ Len(writes[r]) > 0 /\ writes[r][Len(writes[r])].ok) =>
                   Matches(r))

\* The first step of /a failed, a step enqueued behind it ran and succeeded,
\* and the setting holds the palette of the branch /a is on.
C9_Witness ==
    /\ Idle("/a")
    /\ Len(writes["/a"]) = 2
    /\ ~writes["/a"][1].ok
    /\ writes["/a"][2].ok
    /\ Colored(head["/a"])
    /\ Matches("/a")

\* ---------------------------------------------------------------- C10
\* The Clear command starts in slot c, finishes there; Reroll starts in c.
ClearInvoked(c) == cmd[c].pc = "none" /\ cmd'[c].pc # "none" /\ cmd'[c].name = "clear"
ClearCompletes(c) ==
    /\ cmd[c].name = "clear"
    /\ cmd[c].pc = "awaitConfig"
    /\ cmd'[c].pc = "none"
    /\ budget' = budget
RerollInvoked(c) == cmd[c].pc = "none" /\ cmd'[c].pc # "none" /\ cmd'[c].name = "reroll"

\* Clear has run to completion on the branch r is on, the last step handled
\* for r was for another branch, and the branch's pair has no assignment.
ClearedAndBack(r) ==
    /\ Truthy(head[r])
    /\ \E c \in CmdSlots :
          /\ cmd[c].name = "clear"
          /\ cmd[c].pc = "none"
          /\ cmd[c].repo = r
          /\ cmd[c].branchName = head[r]
    /\ Truthy(task[r].branchName)
    /\ task[r].branchName # head[r]
    /\ "colors:" \o r \o ":" \o head[r] \notin DOMAIN globalState

\* C10 as stated: Clear on a named branch, default or not, removes the pair's
\* assignment and, on completing, the managed keys; and the next handler of
\* that branch, after a switch away and back, generates a fresh colour and
\* persists it, on default and non-default branches alike.
C10_AsStated ==
    [][/\ \A c \in CmdSlots :
            /\ ClearInvoked(c) =>
                 LET r == cmd'[c].repo
                 IN  (r # undefined /\ Truthy(head[r])) =>
                        /\ cmd'[c].key \notin DOMAIN globalState'
                        /\ DOMAIN globalState' = DOMAIN globalState \ {cmd'[c].key}
            /\ ClearCompletes(c) => ManagedPresent(colorCustomizations') = {}
       /\ \A r \in Repos :
            (Starts(r) /\ ClearedAndBack(r)) =>
                /\ task'[r].fresh
                /\ task'[r].color \in generateRandomColor
                /\ "colors:" \o r \o ":" \o head[r] \in DOMAIN globalState'
      ]_vars

\* C10: Clear, for the resolved repository on a named branch, removes that
\* pair's stored assignment and leaves every other assignment alone, and when
\* it completes the setting has no managed key, on default and non-default
\* branches alike.  A removed assignment comes back only when the handler of
\* that branch generates a fresh colour or Reroll stores one; and a handler
\* that starts on a colourable branch without an assignment finds none,
\* generates a colour, persists it and, on completing, applies its palette;
\* a handler that starts on a default branch generates nothing and leaves
\* the store as it is, so a cleared default branch stays without assignment.
C10_ClearForgetsAssignment ==
    [][/\ \A c \in CmdSlots :
            /\ ClearInvoked(c) =>
                 LET r == cmd'[c].repo
                 IN  (r # undefined /\ Truthy(head[r])) =>
                        /\ cmd'[c].key = "colors:" \o r \o ":" \o head[r]
                        /\ cmd'[c].key \notin DOMAIN globalState'
                        /\ DOMAIN globalState' = DOMAIN globalState \ {cmd'[c].key}
                        /\ \A k \in DOMAIN globalState' : globalState'[k] = globalState[k]
            /\ ClearCompletes(c) => ManagedPresent(colorCustomizations') = {}
       /\ \A r \in Repos : \A b \in Branches :
            LET k == "colors:" \o r \o ":" \o b
            IN  (k \notin DOMAIN globalState /\ k \in DOMAIN globalState') =>
                   \/ /\ Starts(r)
                      /\ head[r] = b
                      /\ task'[r].fresh
                   \/ \E c \in CmdSlots :
                         /\ RerollInvoked(c)
                         /\ cmd'[c].key = k
       /\ \A r \in Repos :
            LET k == "colors:" \o r \o ":" \o head[r]
            IN  /\ (Starts(r) /\ Colored(head[r]) /\ k \notin DOMAIN globalState) =>
                      /\ task'[r].fresh
                      /\ task'[r].color \in generateRandomColor
                      /\ k \in DOMAIN globalState'
                      /\ globalState'[k] = task'[r].color
                /\ (Completes(r) /\ task[r].fresh) =>
                      HoldsPalette(colorCustomizations', task[r].color)
                /\ (Starts(r) /\ head[r] \in {"main", "master"}) =>
                      /\ ~task'[r].fresh
                      /\ globalState' = globalState
      ]_vars

\* Clear ran to completion on feature-1 of /a while an assignment was stored
\* for it; /a was then switched to feature-2 and back, and the handler of
\* feature-1 generated a fresh colour, persisted it and applied its palette.
C10_Witness ==
    /\ \E c \in CmdSlots :
          /\ cmd[c].name = "clear"
          /\ cmd[c].repo = "/a"
          /\ cmd[c].branchName = "feature-1"
          /\ Truthy(cmd[c].stored)
    /\ \A c \in CmdSlots : cmd[c].pc = "none" /\ cmd[c].name # "reroll"
    /\ "colors:/a:feature-2" \in DOMAIN globalState
    /\ head["/a"] = "feature-1"
    /\ Idle("/a")
    /\ task["/a"].branchName = "feature-1"
    /\ task["/a"].fresh
    /\ "colors:/a:feature-1" \in DOMAIN globalState
    /\ globalState["colors:/a:feature-1"] = task["/a"].color
    /\ HoldsPalette(colorCustomizations, task["/a"].color)

\* ---------------------------------------------------------------- C11
\* C11: Clear leaves the store without the pair's entry and the setting
\* without managed keys and with its unrelated keys; run again on that state
\* it changes neither: invoked where the pair has no entry it leaves the
\* store as it is, its write computed over a setting without managed keys is
\* that setting, and completing over such a setting it leaves it as it is.
C11_ClearIdempotent ==
    /\ [][\A c \in CmdSlots :
             /\ ClearInvoked(c) =>
                  /\ Truthy(cmd'[c].key) => cmd'[c].key \notin DOMAIN globalState'
                  /\ (Truthy(cmd'[c].key) => cmd'[c].key \notin DOMAIN globalState) =>
                         globalState' = globalState
             /\ ClearCompletes(c) =>
                  /\ globalState' = globalState
                  /\ ManagedPresent(colorCustomizations') = {}
                  /\ Unrelated(colorCustomizations') = Unrelated(colorCustomizations)
                  /\ ManagedPresent(colorCustomizations) = {} =>
                         colorCustomizations' = colorCustomizations
         ]_vars
    /\ [](\A config \in {colorCustomizations} :
             clearColor(clearColor(config)) = clearColor(config))

\* A second Clear in a row on feature-1 of /a has completed: the first had
\* removed a stored assignment and the managed keys, the second found neither
\* (the state is the one its last step was about to write), and the setting
\* still holds the unrelated key.
C11_Witness ==
    /\ cmd[1].name = "clear"
    /\ cmd[1].pc = "none"
    /\ cmd[1].repo = "/a"
    /\ cmd[1].branchName = "feature-1"
    /\ ~Truthy(cmd[1].stored)
    /\ cmd[1].target = colorCustomizations
    /\ cmd[2].name = undefined
    /\ message = "information: Color cleared."
    /\ budget = MaxCommandEvents - 3
    /\ Idle("/a")
    /\ task["/a"].fresh
    /\ task["/a"].branchName = "feature-1"
    /\ "colors:/a:feature-1" \notin DOMAIN globalState
    /\ ManagedPresent(colorCustomizations) = {}
    /\ Unrelated(colorCustomizations) = UnrelatedKeys

\* ---------------------------------------------------------------- C12
\* A step that is an invocation of Reroll in slot c, whatever it goes on to
\* do: the slot was free and now holds reroll, an event was spent, and no
\* branch, watcher, session, handler position or other command changed.
RerollRuns(c) ==
    /\ FreeSlots # {}
    /\ c = NewSlot
    /\ cmd'[c].name = "reroll"
    /\ \A d \in CmdSlots \ {c} : cmd'[d].pc = cmd[d].pc
    /\ budget' = budget - 1
    /\ head' = head
    /\ repositories' = repositories
    /\ session' = session
    /\ \A r \in Repos : task'[r].pc = task[r].pc

\* C12: Reroll invoked while the resolved repository has no branch name or
\* is on a default branch returns at once: the store, the setting and the
\* queues are left as they are, nothing of the command stays in flight, and
\* the rejection is shown.
C12_RerollRejectedIsNoOp ==
    [][\A c \in CmdSlots :
         (/\ RerollRuns(c)
          /\ cmd'[c].repo # undefined
          /\ ~Truthy(head[cmd'[c].repo]) \/ head[cmd'[c].repo] \in {"main", "master"}) =>
             /\ globalState' = globalState
             /\ colorCustomizations' = colorCustomizations
             /\ cmd'[c].pc = "none"
             /\ pending' = pending
             /\ message' = IF Truthy(head[cmd'[c].repo])
                           THEN "information: is a default branch (no color applied)."
                           ELSE "warning: No branch detected."
      ]_vars

\* Reroll was rejected on the default branch main of /a while the store held
\* feature-1's assignment and the setting its palette; both are still there.
C12_Witness ==
    /\ \E c \in CmdSlots :
          /\ cmd[c].name = "reroll"
          /\ cmd[c].pc = "none"
          /\ cmd[c].repo = "/a"
          /\ cmd[c].branchName = "main"
    /\ head["/a"] = "main"
    /\ message = "information: is a default branch (no color applied)."
    /\ "colors:/a:feature-1" \in DOMAIN globalState
    /\ HoldsPalette(colorCustomizations, globalState["colors:/a:feature-1"])

\* ---------------------------------------------------------------- C13
\* The last await of the Reroll in slot c resolves.
RerollCompletes(c) ==
    /\ cmd[c].name = "reroll"
    /\ cmd[c].pc = "awaitConfig"
    /\ cmd'[c].pc = "none"
    /\ budget' = budget

\* C13: Reroll invoked while the resolved repository is on a named
\* non-default branch generates a colour and stores it under that pair's key,
\* whether or not the pair had an entry, leaving every other entry as it was;
\* when it completes with no other command in flight the setting holds the
\* palette of that colour (its titleBar.activeBackground is the colour), the
\* unrelated keys are kept and the pair's stored colour is the generated one.
C13_RerollOverwritesAndApplies ==
    [][\A c \in CmdSlots :
         /\ (/\ RerollRuns(c)
             /\ cmd'[c].repo # undefined
             /\ Colored(head[cmd'[c].repo])) =>
                LET k == "colors:" \o cmd'[c].repo \o ":" \o head[cmd'[c].repo]
                IN  /\ cmd'[c].pc = "awaitStore"
                    /\ cmd'[c].key = k
                    /\ cmd'[c].color \in generateRandomColor
                    /\ DOMAIN globalState' = DOMAIN globalState \cup {k}
                    /\ globalState'[k] = cmd'[c].color
                    /\ \A other \in DOMAIN globalState \ {k} :
                          globalState'[other] = globalState[other]
         /\ (RerollCompletes(c) /\ \A d \in CmdSlots : cmd'[d].pc = "none") =>
                /\ HoldsPalette(colorCustomizations', cmd[c].color)
                /\ ActiveBackground(colorCustomizations') = cmd[c].color
                /\ Unrelated(colorCustomizations') = Unrelated(colorCustomizations)
                /\ cmd[c].key \in DOMAIN globalState'
                /\ globalState'[cmd[c].key] = cmd[c].color
                /\ globalState' = globalState
      ]_vars

\* ---------------------------------------------------------------- C14
\* A step that is an invocation of Clear in slot c, whatever it goes on to do.
ClearRuns(c) ==
    /\ FreeSlots # {}
    /\ c = NewSlot
    /\ cmd'[c].name = "clear"
    /\ \A d \in CmdSlots \ {c} : cmd'[d].pc = cmd[d].pc
    /\ budget' = budget - 1
    /\ head' = head
    /\ repositories' = repositories
    /\ session' = session
    /\ \A r \in Repos : task'[r].pc = task[r].pc

\* C14: with no repository open, Reroll and Clear each show the warning
\* "No git repository found." and return at once, and neither the store nor
\* the setting is changed by the command.
C14_NoRepositoryNoAction ==
    [][\A c \in CmdSlots :
         /\ ((RerollRuns(c) \/ ClearRuns(c)) /\ cmd'[c].repo = undefined) =>
                /\ cmd'[c].pc = "none"
                /\ message' = "warning: No git repository found."
                /\ globalState' = globalState
                /\ colorCustomizations' = colorCustomizations
         /\ (cmd[c].name \in {"reroll", "clear"} /\ cmd[c].repo = undefined
                /\ cmd[c].pc # "none" /\ cmd'[c].pc = "none" /\ budget' = budget) =>
                /\ globalState' = globalState
                /\ colorCustomizations' = colorCustomizations
      ]_vars

\* ---------------------------------------------------------------- C15
\* Steps of r started so far, finished so far.
Started(r) == Len(enqs[r]) - pending[r]
Ended(r) == Len(writes[r])

\* A step of r finishes, resolved or rejected.
Ends(r) == task[r].pc # "idle" /\ task'[r].pc = "idle" /\ session' = session

\* C15: of each repository's steps at most one has started and not finished;
\* the step that starts is the oldest one enqueued and not yet run, and it
\* starts only when every step started before it has finished, resolved or
\* rejected; a step that finishes is the one in flight.  What another
\* repository's queue is doing is no condition of a start.
C15_SerializedPerRepository ==
    /\ [](\A r \in Repos :
             /\ Started(r) - Ended(r) = (IF task[r].pc = "idle" THEN 0 ELSE 1)
             /\ pending[r] >= 0
             /\ (Watched(r) /\ pending[r] > 0 /\ task[r].pc = "idle") =>
                   ENABLED handleBranchChange(r))
    /\ [][\A r \in Repos :
             /\ Starts(r) => /\ Ended(r) = Started(r)
                             /\ Started(r)' = Started(r) + 1
                             /\ Ended(r)' = Ended(r)
                             /\ enqs'[r] = enqs[r]
             /\ Ends(r) => /\ Ended(r)' = Ended(r) + 1
                           /\ Started(r)' = Started(r)
         ]_vars

\* A step of /a and a step of /a/sub are in flight at the same time, each at
\* a suspension point, while a further step of /a waits for /a's first.
C15_Witness ==
    /\ task["/a"].pc = "awaitConfig"
    /\ task["/a/sub"].pc = "awaitStore"
    /\ pending["/a"] = 1
    /\ Len(enqs["/a"]) = 2
    /\ Ended("/a") = 0
    /\ Ended("/a/sub") = 0

\* ---------------------------------------------------------------- C16
\* The branch name of the last work enqueued for r; the absent name while
\* nothing was enqueued (the watcher's lastBranch starts undefined).
LastEnqueued(r) ==
    IF Len(enqs[r]) = 0 THEN undefined ELSE enqs[r][Len(enqs[r])].branch

\* C16: work is enqueued for a repository exactly when the branch name
\* observed differs from the one of the last work enqueued: each entry
\* enqueued is the name observed at that moment, differs from the entry
\* before it, adds one step to the queue and touches neither the store nor
\* the setting; after every notification the last name enqueued is the
\* current one; and a notification that observes that same name changes
\* nothing at all.
C16_EnqueueIffBranchDiffers ==
    /\ [][\A r \in Repos :
             Len(enqs'[r]) # Len(enqs[r]) =>
                /\ enqs'[r] = Append(enqs[r], [branch |-> head'[r],
                                               finished |-> Len(writes[r])])
                /\ head'[r] # LastEnqueued(r)
                /\ pending'[r] = pending[r] + 1
                /\ globalState' = globalState
                /\ colorCustomizations' = colorCustomizations
         ]_vars
    /\ [](\A r \in Repos :
             Watched(r) =>
                /\ LastEnqueued(r) = head[r]
                /\ lastBranch[r] = LastEnqueued(r)
                /\ \A i \in 2..Len(enqs[r]) : enqs[r][i].branch # enqs[r][i - 1].branch
                /\ ENABLED onDidChange(r)
                /\ ~ENABLED (onDidChange(r) /\ vars' # vars))

\* /a was attached on feature-1, switched to main and back to feature-1:
\* three pieces of work were enqueued, the third for a name seen before but
\* not last, and a further notification on feature-1 would add nothing.
C16_Witness ==
    /\ Watched("/a")
    /\ Len(enqs["/a"]) = 3
    /\ enqs["/a"][1].branch = "feature-1"
    /\ enqs["/a"][2].branch = "main"
    /\ enqs["/a"][3].branch = "feature-1"
    /\ head["/a"] = "feature-1"
    /\ lastBranch["/a"] = "feature-1"

\* ---------------------------------------------------------------- C17
\* C17: every step enqueued for a repository is eventually started and
\* eventually finishes, given that ready callbacks run and every update
\* resolves or rejects: for each n, from some moment on, if an n-th step was
\* enqueued then the n-th step has started and finished (the histories only
\* grow, so this is "the n-th step enqueued leads to the n-th step
\* finished").  And no step is cancelled, skipped or replaced: the work
\* enqueued is never taken back, each piece of work enqueued adds one step to
\* the queue, and a step leaves the queue only by starting.
C17_EveryEnqueuedStepFinishes ==
    /\ \A r \in SoloRepos : \A n \in 1..MaxFaultEvents :
          <>[](Len(enqs[r]) >= n => (Started(r) >= n /\ Ended(r) >= n))
    /\ [][\A r \in SoloRepos :
             /\ Len(enqs'[r]) >= Len(enqs[r])
             /\ \A i \in 1..Len(enqs[r]) : enqs'[r][i] = enqs[r][i]
             /\ pending'[r] - pending[r] = (Len(enqs'[r]) - Len(enqs[r]))
                                           - (IF Starts(r) THEN 1 ELSE 0)
             /\ Len(writes'[r]) >= Len(writes[r])
             /\ \A i \in 1..Len(writes[r]) : writes'[r][i] = writes[r][i]
         ]_vars

\* Two steps were enqueued for /a, the second while the first was still in
\* flight; the first failed, and both have finished.
C17_Witness ==
    /\ Len(enqs["/a"]) = 2
    /\ enqs["/a"][2].finished = 0
    /\ Len(writes["/a"]) = 2
    /\ ~writes["/a"][1].ok
    /\ writes["/a"][2].ok
    /\ enqs["/a"][1].branch # writes["/a"][1].branchName
    /\ Idle("/a")

\* ---------------------------------------------------------------- C18
\* The settings clearColor is run on: undefined, and every object over the
\* six managed keys and two unrelated ones (the empty object included).
ClearInputKeys == TheSixKeys \cup {"foo.bar", "editor.background"}

ClearInputs ==
    {None} \cup
    {Some([k \in keys |-> IF k \in TheSixKeys THEN White ELSE 1]) :
        keys \in SUBSET ClearInputKeys}

\* No repository is open and the setting is any of the inputs.
ClearInit ==
    /\ head = [r \in Repos |-> "main"]
    /\ recording = FALSE
    /\ repositories = <<>>
    /\ lastBranch = [r \in Repos |-> undefined]
    /\ pending = [r \in Repos |-> 0]
    /\ settled = [r \in Repos |-> "fulfilled"]
    /\ task = [r \in Repos |-> IdleTask]
    /\ cmd = NoCommands
    /\ globalState \in InitialStates
    /\ colorCustomizations \in ClearInputs
    /\ message = "none"
    /\ session = 1
    /\ budget = MaxClearEvents
    /\ enqs = [r \in Repos |-> <<>>]
    /\ writes = [r \in Repos |-> <<>>]

\* The Clear command run on that setting: clearColor, then its write.
ClearNext ==
    \/ \E uri \in ActiveUris : clear(uri)
    \/ \E c \in CmdSlots : ClearConfigResolved(c)

ClearSpec == ClearInit /\ [][ClearNext]_vars

\* C18: the write of clearColor drops the six managed keys and nothing else:
\* when no other key is left it writes undefined, never an empty object, and
\* otherwise it writes the object of exactly the other keys with their values.
C18_ClearWritesUndefinedOrUnrelated ==
    [][\A c \in CmdSlots : ClearCompletes(c) =>
          LET existing == Existing(colorCustomizations)
              rest == DOMAIN existing \ TheSixKeys
          IN  /\ colorCustomizations' # Some(EmptyObject)
              /\ rest = {} => colorCustomizations' = None
              /\ rest # {} =>
                    /\ colorCustomizations' # None
                    /\ DOMAIN TheValue(colorCustomizations') = rest
                    /\ \A k \in rest : TheValue(colorCustomizations')[k] = existing[k]
      ]_vars

\* clearColor has run on a setting that holds managed keys and nothing else
\* and is about to write undefined.
C18_Witness ==
    /\ cmd[1].name = "clear"
    /\ cmd[1].pc = "awaitConfig"
    /\ colorCustomizations # None
    /\ DOMAIN TheValue(colorCustomizations) = {"titleBar.activeBackground",
                                               "statusBar.foreground"}
    /\ cmd[1].target = None

\* ---------------------------------------------------------------- C19
\* /a is on a named branch when its watcher is attached and can be detached
\* later; the only command is Reroll.
NamedCheckouts == [r \in Repos |-> IF r = "/a" THEN {"main", "feature-1"} ELSE {"main"}]

RerollInit == InitWith(NamedCheckouts, FALSE, MaxRerollEvents)

RerollNext ==
    \/ \E r \in SoloRepos : watchRepo(r)
    \/ \E r \in SoloRepos : \E b \in Checkouts[r] : BranchChange(r, b)
    \/ \E r \in SoloRepos : onDidChange(r)
    \/ \E r \in SoloRepos : handleBranchChange(r)
    \/ \E r \in SoloRepos : StoreResolved(r)
    \/ \E r \in SoloRepos : ConfigResolved(r)
    \/ \E uri \in ActiveUris : reroll(uri)
    \/ \E c \in CmdSlots : RerollStoreResolved(c)
    \/ \E c \in CmdSlots : RerollConfigResolved(c)

RerollSpec == RerollInit /\ [][RerollNext]_vars

\* C19: whenever no handler of /a is queued or in flight and no command is
\* in flight, the setting matches the branch /a is on: no managed key when
\* the branch is absent or default, otherwise titleBar.activeBackground is
\* the colour stored for the branch.
C19_QuiescentBlobMatchesBranch ==
    (Watched("/a") /\ Idle("/a") /\ \A c \in CmdSlots : cmd[c].pc = "none") =>
        IF Colored(head["/a"])
        THEN /\ "colors:/a:" \o head["/a"] \in DOMAIN globalState
             /\ ActiveBackground(colorCustomizations)
                   = globalState["colors:/a:" \o head["/a"]]
        ELSE ManagedPresent(colorCustomizations) = {}

\* ---------------------------------------------------------------- C20
\* Repository root paths (a path may hold a colon) and branch names (git
\* allows no colon in a ref name), chosen so that some concatenations of a
\* path and a name coincide.
KeyPaths == {"/a", "/ab", "/a:b", "/a:b/c"}
KeyBranches == {"b", "c", "bc", "b/c"}

\* context.globalState.update(colorKey(repoPath, branchName), color)
put(repoPath, branchName, color) ==
    /\ budget > 0
    /\ globalState' = Update(globalState, colorKey(repoPath, branchName), color)
    /\ budget' = budget - 1
    /\ UNCHANGED <<head, repositories, lastBranch, pending, settled, task, cmd,
                   colorCustomizations, message, session, recording, enqs, writes>>

\* context.globalState.update(colorKey(repoPath, branchName), undefined)
delete(repoPath, branchName) ==
    /\ budget > 0
    /\ globalState' = Update(globalState, colorKey(repoPath, branchName), undefined)
    /\ budget' = budget - 1
    /\ UNCHANGED <<head, repositories, lastBranch, pending, settled, task, cmd,
                   colorCustomizations, message, session, recording, enqs, writes>>

\* The store holds any one assignment, or none.
KeyInit ==
    /\ head = [r \in Repos |-> "main"]
    /\ recording = FALSE
    /\ repositories = <<>>
    /\ lastBranch = [r \in Repos |-> undefined]
    /\ pending = [r \in Repos |-> 0]
    /\ settled = [r \in Repos |-> "fulfilled"]
    /\ task = [r \in Repos |-> IdleTask]
    /\ cmd = NoCommands
    /\ globalState \in {EmptyObject} \cup
          {Update(EmptyObject, colorKey(p, b), c) :
              p \in KeyPaths, b \in KeyBranches, c \in generateRandomColor}
    /\ colorCustomizations = None
    /\ message = "none"
    /\ session = 1
    /\ budget = MaxKeyEvents
    /\ enqs = [r \in Repos |-> <<>>]
    /\ writes = [r \in Repos |-> <<>>]

KeyNext ==
    \/ \E p \in KeyPaths : \E b \in KeyBranches : \E c \in generateRandomColor :
          put(p, b, c)
    \/ \E p \in KeyPaths : \E b \in KeyBranches : delete(p, b)

KeySpec == KeyInit /\ [][KeyNext]_vars

\* The lookup of a key gives another result after the step.
LookupChanges(k) ==
    \/ (k \in DOMAIN globalState) # (k \in DOMAIN globalState')
    \/ /\ k \in DOMAIN globalState
       /\ k \in DOMAIN globalState'
       /\ globalState'[k] # globalState[k]

\* C20: distinct (path, branch) pairs have distinct keys, and a put, an
\* overwrite or a delete for one pair changes the lookup of no other pair.
C20_KeysInjective ==
    /\ [](\A p1 \in KeyPaths, p2 \in KeyPaths, b1 \in KeyBranches, b2 \in KeyBranches :
             colorKey(p1, b1) = colorKey(p2, b2) => (p1 = p2 /\ b1 = b2))
    /\ [][\A p1 \in KeyPaths, b1 \in KeyBranches :
             ((\E c \in generateRandomColor : put(p1, b1, c)) \/ delete(p1, b1)) =>
                 \A p2 \in KeyPaths, b2 \in KeyBranches :
                    LookupChanges(colorKey(p2, b2)) => (p2 = p1 /\ b2 = b1)
         ]_vars

\* The pairs (/a, bc) and (/ab, c), whose path and name concatenate to the
\* same text, hold different colours, the second put after the first.
C20_Witness ==
    /\ budget < MaxKeyEvents
    /\ "colors:/a:bc" \in DOMAIN globalState
    /\ "colors:/ab:c" \in DOMAIN globalState
    /\ globalState["colors:/a:bc"] # globalState["colors:/ab:c"]

====
